---------------------------- MODULE Spec2Model ----------------------------
(***************************************************************************)
(* QAOA objective evaluation and classical optimisation loop of the        *)
(* qml-mooc notebooks.                                                     *)
(*                                                                         *)
(* Three variants of create_circuit / evaluate_circuit exist in the        *)
(* sources:                                                                *)
(*   "qiskit"  coding_assignments/07_Variational_Circuits, Qiskit branch   *)
(*   "pyquil"  coding_assignments/07_Variational_Circuits, PyQuil branch   *)
(*   "opflow"  the lecture notebook (unnamed/part_000), opflow operators   *)
(* and "other" stands for a circuit_init that is neither a QuantumCircuit  *)
(* nor a Program.                                                          *)
(*                                                                         *)
(* Angles are integers, in units of pi/8.  Every rotation the model makes  *)
(* is by a multiple of pi/8, so every amplitude is an element of Z[z],     *)
(* z = exp(i*pi/8), over a power of two, and the statevector simulator is  *)
(* modelled exactly, in integer arithmetic.                                *)
(***************************************************************************)
EXTENDS Integers, Sequences, FiniteSets, TLC

\* ------------------------------------------------------------------ bounds
\* Largest depth p the model is set up with (the notebooks use 1 and 2).
MaxP == 2
\* Cap on the objective evaluations of one optimisation run (scipy: maxfun).
MaxFun == 7

\* ------------------------------------------------------- program constants
n_qubits == 2

\* Largest grid index of the angles drawn: np.random.uniform(0, np.pi*2, p)
\* on a grid.
MaxAngle == 1

\* Shots of one execute(circuit, backend, shots=100), capped.
MaxShots == 12

\* Largest distance between two data points.
MaxW == 1

\* Largest number of qubits of a pure state given to mixed_state.
MaxQubits == 2

\* Visibilities are multiples of 1/VisibilityGrid.
VisibilityGrid == 5

Dim == 0 .. 3

\* ------------------------------------------------------ arithmetic in Z[z]
\* z = exp(i*pi/8), z^8 = -1.  <<a0,...,a7>> is a0 + a1*z + ... + a7*z^7.
ZOne == <<1, 0, 0, 0, 0, 0, 0, 0>>

ZAdd(a, b) ==
  << a[1] + b[1], a[2] + b[2], a[3] + b[3], a[4] + b[4],
     a[5] + b[5], a[6] + b[6], a[7] + b[7], a[8] + b[8] >>

ZScale(n, a) ==
  << n * a[1], n * a[2], n * a[3], n * a[4],
     n * a[5], n * a[6], n * a[7], n * a[8] >>

\* a * z^k for any integer k (z^16 = 1): a_j z^j goes to index (j + k) mod 8,
\* negated when j + k passes 8 an odd number of times.
ZMulZetaAt(a, kk, i) ==
  LET j == ((i - 1) - kk) % 8
  IN  IF ((j + kk) \div 8) % 2 = 0 THEN a[j + 1] ELSE -a[j + 1]

ZMulZeta(a, k) ==
  LET kk == k % 16
  IN  << ZMulZetaAt(a, kk, 1), ZMulZetaAt(a, kk, 2), ZMulZetaAt(a, kk, 3),
         ZMulZetaAt(a, kk, 4), ZMulZetaAt(a, kk, 5), ZMulZetaAt(a, kk, 6),
         ZMulZetaAt(a, kk, 7), ZMulZetaAt(a, kk, 8) >>

ZEven(a) == \A i \in 1 .. 8 : a[i] % 2 = 0

ZHalf(a) ==
  << a[1] \div 2, a[2] \div 2, a[3] \div 2, a[4] \div 2,
     a[5] \div 2, a[6] \div 2, a[7] \div 2, a[8] \div 2 >>

\* sum of a[i] * a[i + d]
RECURSIVE ZCorrFrom(_, _, _)
ZCorrFrom(a, d, i) ==
  IF i + d > 8 THEN 0 ELSE a[i] * a[i + d] + ZCorrFrom(a, d, i + 1)

ZCorr(a, d) == ZCorrFrom(a, d, 1)

\* Real numbers r0 + r1*c1 + r2*sqrt(2) + r3*c3 with integer r, where
\* c1 = 2cos(pi/8) and c3 = 2cos(3pi/8); the four are independent over the
\* rationals, so equal numbers have equal tuples.
\* |a|^2 = sum a_i^2 + sum_{i<j} a_i a_j (z^(j-i) + z^-(j-i)).
ZNorm(a) ==
  << ZCorr(a, 0),
     ZCorr(a, 1) - ZCorr(a, 7),
     ZCorr(a, 2) - ZCorr(a, 6),
     ZCorr(a, 3) - ZCorr(a, 5) >>

R4Zero == <<0, 0, 0, 0>>

R4Add(u, v) == <<u[1] + v[1], u[2] + v[2], u[3] + v[3], u[4] + v[4]>>

R4Scale(n, u) == <<n * u[1], n * u[2], n * u[3], n * u[4]>>

\* sign of r + s*sqrt(2)
R2Sign(u) ==
  LET r == u[1]
      s == u[2]
  IN  IF r = 0 /\ s = 0 THEN 0
      ELSE IF r >= 0 /\ s >= 0 THEN 1
      ELSE IF r <= 0 /\ s <= 0 THEN -1
      ELSE IF r > 0 THEN (IF r * r > 2 * s * s THEN 1 ELSE -1)
      ELSE (IF 2 * s * s > r * r THEN 1 ELSE -1)

R2Mul(u, v) == <<u[1] * v[1] + 2 * u[2] * v[2], u[1] * v[2] + u[2] * v[1]>>

\* sign of r0 + r1*c1 + r2*sqrt(2) + r3*c3 = u + c1*w, with u = r0 + r2*sqrt(2),
\* w = (r1 - r3) + r3*sqrt(2) (c3 = c1*(sqrt(2) - 1)) and c1^2 = 2 + sqrt(2).
R4Sign(x) ==
  LET u == <<x[1], x[3]>>
      w == <<x[2] - x[4], x[4]>>
      su == R2Sign(u)
      sw == R2Sign(w)
      uu == R2Mul(u, u)
      ww == R2Mul(<<2, 1>>, R2Mul(w, w))
  IN  IF sw = 0 THEN su
      ELSE IF su = 0 \/ su = sw THEN sw
      ELSE IF R2Sign(<<uu[1] - ww[1], uu[2] - ww[2]>>) > 0 THEN su
      ELSE sw

\* a * 2cos(m*pi/8) and a * 2sin(m*pi/8): 2cos(m*pi/8) = z^m + z^-m
ZMulTwoCos(a, m) == ZAdd(ZMulZeta(a, m), ZMulZeta(a, -m))

\* the cosine taken where the sine belongs
TwoCosForSin(a, m) == ZMulTwoCos(a, m)

ZMulTwoSin(a, m) == ZMulTwoCos(a, m - 4)

\* ------------------------------------------------------------- observables
\* A term is coefficient * Pauli string.  c2 is twice the real part of the
\* coefficient and ci2 twice its imaginary part; kind is "Z" (a product of
\* sigma^Z on the qubits of qs, the identity when qs is empty) or "X" (sigma^X
\* on the single qubit of qs).
Term(c2, ci2, kind, qs) == [c2 |-> c2, ci2 |-> ci2, kind |-> kind, qs |-> qs]

pauli_x(qubit, coeff2) == Term(coeff2, 0, "X", {qubit})

pauli_z(qubit, coeff2) == Term(coeff2, 0, "Z", {qubit})

\* Pauli(eye[q1], 0) * Pauli(eye[q2], 0): the Z masks add modulo 2.
product_pauli_z(q1, q2, coeff2) ==
  Term(coeff2, 0, "Z", ({q1} \cup {q2}) \ ({q1} \cap {q2}))

Qubits == 0 .. (n_qubits - 1)

\* qubit 0 read as the most significant bit
BitBigEndian(j, q) == (j \div (2 ^ (n_qubits - 1 - q))) % 2

\* bit q of basis index j (qubit 0 is the least significant bit)
Bit(j, q) == (j \div (2 ^ q)) % 2

\* j with bit q flipped
Flip(j, q) == IF Bit(j, q) = 0 THEN j + 2 ^ q ELSE j - 2 ^ q

RECURSIVE Parity(_, _)
Parity(j, qs) ==
  IF qs = {} THEN 0
  ELSE LET q == CHOOSE x \in qs : TRUE
       IN  (Bit(j, q) + Parity(j, qs \ {q})) % 2

\* eigenvalue of the Z string on qs at basis state j
ZEigen(j, qs) == IF Parity(j, qs) = 0 THEN 1 ELSE -1

\* twice the entry (i, j) of the matrix of one term
TermEntry(t, i, j) ==
  IF t.kind = "X"
    THEN IF \E q \in t.qs : j = Flip(i, q) THEN t.c2 ELSE 0
    ELSE IF i = j THEN t.c2 * ZEigen(j, t.qs) ELSE 0

RECURSIVE EntryFrom(_, _, _, _)
EntryFrom(H, i, j, n) ==
  IF n > Len(H) THEN 0 ELSE TermEntry(H[n], i, j) + EntryFrom(H, i, j, n + 1)

\* twice the matrix of the sum of the terms of H, rows and columns in the
\* order 00, 01, 10, 11 of the basis states
Matrix(H) == [i \in 1 .. 4 |-> [j \in 1 .. 4 |-> EntryFrom(H, i - 1, j - 1, 1)]]

\* ------------------------------------------------- statevector simulation
\* A state is [a, d]: the amplitude of basis state j is a[j + 1] / 2^d.
\* init_state_vect = [1 for i in range(2**n_qubits)], coeff = 1/sqrt(2**n):
\* every amplitude is 1/2.
\* the register left in |00>, no superposition prepared
BasisState ==
  [a |-> <<ZOne, ZScale(0, ZOne), ZScale(0, ZOne), ZScale(0, ZOne)>>, d |-> 0]

UniformState == [a |-> <<ZOne, ZOne, ZOne, ZOne>>, d |-> 1]

\* the same state with the smallest denominator
RECURSIVE Reduce(_)
Reduce(psi) ==
  IF psi.d > 0 /\ \A j \in Dim : ZEven(psi.a[j + 1])
    THEN Reduce([a |-> << ZHalf(psi.a[1]), ZHalf(psi.a[2]),
                          ZHalf(psi.a[3]), ZHalf(psi.a[4]) >>,
                 d |-> psi.d - 1])
    ELSE psi

\* exp(-i * angle * coefficient * Pauli) applied to psi, the angle being k
\* units of pi/8 and the coefficient c2/2: a rotation by m*pi/8 with
\* m = k * c2 / 2.  For a Z string the amplitude of j gets the phase
\* z^(-m * eigenvalue); for X on qubit q the result is
\* cos(m*pi/8) * psi - i * sin(m*pi/8) * X psi, and -i = z^12.
ApplyZAt(psi, t, m, j) == ZMulZeta(psi.a[j + 1], -(m * ZEigen(j, t.qs)))

ApplyXAt(psi, q, m, j) ==
  ZAdd(ZMulTwoCos(psi.a[j + 1], m),
       ZMulTwoSin(ZMulZeta(psi.a[Flip(j, q) + 1], 12), m))

ApplyTerm(psi, t, k) ==
  LET m == (k * t.c2) \div 2
  IN  IF t.kind = "Z"
        THEN [a |-> << ApplyZAt(psi, t, m, 0), ApplyZAt(psi, t, m, 1),
                       ApplyZAt(psi, t, m, 2), ApplyZAt(psi, t, m, 3) >>,
              d |-> psi.d]
        ELSE LET q == CHOOSE x \in t.qs : TRUE
             IN  Reduce([a |-> << ApplyXAt(psi, q, m, 0), ApplyXAt(psi, q, m, 1),
                                  ApplyXAt(psi, q, m, 2), ApplyXAt(psi, q, m, 3) >>,
                         d |-> psi.d + 1])

\* exp(-i * angle * H) for a sum H of commuting terms: the product of the
\* terms' exponentials (the Suzuki expansion is exact for commuting terms).
\* Each factor is computed before the next one is applied to it.
Computed(psi) == psi.d >= 0

RECURSIVE EvolveFrom(_, _, _, _)
EvolveFrom(psi, H, k, i) ==
  IF i > Len(H) THEN psi
  ELSE LET nxt == ApplyTerm(psi, H[i], k)
       IN  IF Computed(nxt) THEN EvolveFrom(nxt, H, k, i + 1) ELSE nxt

\* an evolution that leaves the state as it is
evolveNothing(psi, H, k) == psi

evolve(psi, H, k) == EvolveFrom(psi, H, k, 1)

\* The state a circuit object prepares: its steps applied, in order, to its
\* initial amplitudes.
RECURSIVE RunFrom(_, _, _, _, _)
RunFrom(psi, ops, i, hm, hc) ==
  IF i > Len(ops) THEN psi
  ELSE LET nxt == evolve(psi, IF ops[i].obs = "Hm" THEN hm ELSE hc,
                         ops[i].angle)
       IN  IF Computed(nxt) THEN RunFrom(nxt, ops, i + 1, hm, hc) ELSE nxt

Statevector(circ, hm, hc) == RunFrom(circ.amps, circ.ops, 1, hm, hc)

RECURSIVE SumZ(_, _, _)
SumZ(psi, qs, j) ==
  IF j > 3 THEN R4Zero
  ELSE R4Add(R4Scale(ZEigen(j, qs), ZNorm(psi.a[j + 1])), SumZ(psi, qs, j + 1))

RECURSIVE ExpectFrom(_, _, _)
ExpectFrom(psi, H, i) ==
  IF i > Len(H) THEN [re |-> R4Zero, im |-> R4Zero]
  ELSE LET e == SumZ(psi, H[i].qs, 0)
           r == ExpectFrom(psi, H, i + 1)
       IN  [re |-> R4Add(R4Scale(H[i].c2, e), r.re),
            im |-> R4Add(R4Scale(H[i].ci2, e), r.im)]

R4Even(u) == \A i \in 1 .. 4 : u[i] % 2 = 0

R4Half(u) == <<u[1] \div 2, u[2] \div 2, u[3] \div 2, u[4] \div 2>>

\* a complex number [re, im, den], value (re + i*im) / den, in lowest terms
RECURSIVE Lowest(_)
Lowest(v) ==
  IF v.den > 1 /\ R4Even(v.re) /\ R4Even(v.im)
    THEN Lowest([re |-> R4Half(v.re), im |-> R4Half(v.im), den |-> v.den \div 2])
    ELSE v

\* <psi| H |psi> for a sum H of weighted Z strings.  The terms' weights are
\* c2/2 and the probabilities |a[j]|^2 / 4^d.
Expectation(psi, H) ==
  LET e == ExpectFrom(psi, H, 1)
  IN  Lowest([re |-> e.re, im |-> e.im, den |-> 2 * 4 ^ psi.d])

\* u < v for real numbers [num, den]
RealLess(u, v) ==
  R4Sign(R4Add(R4Scale(u.den, v.num), R4Scale(-v.den, u.num))) > 0

\* ------------------------------------------------------------ Python lists
\* s[:n] and s[n:] for 0 <= n <= len(s)
SliceTo(s, n) == SubSeq(s, 1, n)

SliceFrom(s, n) == SubSeq(s, n + 1, Len(s))

\* np.concatenate([a, b])
concatenate(a, b) == a \o b

\* s[i], i >= 0, raises IndexError when i >= len(s)
InRange(s, i) == i < Len(s)

Item(s, i) == s[i + 1]

\* ---------------------------------------------------------- create_circuit
Step(obs, angle) == [obs |-> obs, angle |-> angle]

\* A circuit object: the amplitudes it starts from and the evolution steps
\* appended to it, in the order they are applied.
Circuit(amps, ops) == [amps |-> amps, ops |-> ops]

\* beta[i] or gamma[i] is out of range for some i in range(p)
IndexFails(beta, gamma, depth) ==
  \E i \in 0 .. depth - 1 : ~InRange(beta, i) \/ ~InRange(gamma, i)

\* Qiskit branch: [evolve(Hc, beta[i], qr) + evolve(Hm, gamma[i], qr)
\*                 for i in range(p)], summed left to right.
RECURSIVE QiskitEvolv(_, _, _, _)
QiskitEvolv(beta, gamma, i, depth) ==
  IF i >= depth THEN <<>>
  ELSE <<Step("Hc", Item(beta, i)), Step("Hm", Item(gamma, i))>>
         \o QiskitEvolv(beta, gamma, i + 1, depth)

\* PyQuil branch: for i in range(p): every term of Hm with -beta[i], then
\* every term of Hc with -gamma[i].  exponential_map(term)(a) is
\* exp(-i * a * term).
RECURSIVE PyquilEvolv(_, _, _, _)
PyquilEvolv(beta, gamma, i, depth) ==
  IF i >= depth THEN <<>>
  ELSE <<Step("Hm", -Item(beta, i)), Step("Hc", -Item(gamma, i))>>
         \o PyquilEvolv(beta, gamma, i + 1, depth)

\* Lecture notebook: ComposedOp([evolve(Hm, beta[i]) @ evolve(Hc, gamma[i])
\* for i in range(p)] + [init_state]).  A composition applies its rightmost
\* factor first: init_state, then the factors from i = p-1 down to i = 0, and
\* within factor i the cost evolution before the mixing evolution.
RECURSIVE OpflowEvolv(_, _, _)
OpflowEvolv(beta, gamma, i) ==
  IF i < 0 THEN <<>>
  ELSE <<Step("Hc", Item(gamma, i)), Step("Hm", Item(beta, i))>>
         \o OpflowEvolv(beta, gamma, i - 1)

\* circuit_init + circuit_evolv, and circuit = Program(); circuit +=
\* circuit_init; circuit += ...: the result is a new object, the operand is
\* left as it was.  [circuit: the object built, init: circuit_init afterwards]
ComposeInPlace(ci, evolv) ==
  [circuit |-> Circuit(ci.amps, ci.ops \o evolv),
   init |-> Circuit(ci.amps, ci.ops \o evolv)]

\* the evolutions alone, circuit_init left out of the sum
ComposeWithoutInit(ci, evolv) ==
  [circuit |-> Circuit(BasisState, evolv), init |-> ci]

Compose(ci, evolv) ==
  [circuit |-> Circuit(ci.amps, ci.ops \o evolv), init |-> ci]

NoCircuit == Circuit(UniformState, <<>>)

\* create_circuit(circuit_init, beta, gamma) with the global depth p:
\* [err, circuit, init]
create_circuit(kind, ci, beta, gamma, depth) ==
  IF kind = "other"
    THEN [err |-> "UnboundLocalError", circuit |-> NoCircuit, init |-> ci]
  ELSE IF IndexFails(beta, gamma, depth)
    THEN [err |-> "IndexError", circuit |-> NoCircuit, init |-> ci]
  ELSE LET evolv == CASE kind = "qiskit" -> QiskitEvolv(beta, gamma, 0, depth)
                      [] kind = "pyquil" -> PyquilEvolv(beta, gamma, 0, depth)
                      [] OTHER -> OpflowEvolv(beta, gamma, depth - 1)
           c == Compose(ci, evolv)
       IN  [err |-> "none", circuit |-> c.circuit, init |-> c.init]

\* ------------------------------------------------------------------- setup
Kinds == {"qiskit", "pyquil", "opflow", "other"}

Assignment(kind) == kind # "opflow"

\* The mixing Hamiltonian: sum of sigma^X over the qubits, with weight 1 in
\* the assignment (exercise 1) and -1 in the lecture notebook.
MixingHamiltonian(kind) ==
  IF Assignment(kind) THEN <<pauli_x(0, 2), pauli_x(1, 2)>>
  ELSE <<pauli_x(0, -2), pauli_x(1, -2)>>

\* a coupling matrix with both triangles filled
JSymmetric(i, j) == IF i # j THEN 1 ELSE 0

\* J = np.array([[0,1],[0,0]])
J(i, j) == IF i = 0 /\ j = 1 THEN 1 ELSE 0

\* The cost Hamiltonian: -Z0Z1 - 0.5*Z0 in the assignment (exercise 2), and
\* [product_pauli_z(i, j, -J[i,j]) for i, j in product(range(2), repeat=2)]
\* in the lecture notebook.
CostHamiltonian(kind) ==
  IF Assignment(kind) THEN <<product_pauli_z(0, 1, -2), pauli_z(0, -1)>>
  ELSE << product_pauli_z(0, 0, -2 * J(0, 0)), product_pauli_z(0, 1, -2 * J(0, 1)),
          product_pauli_z(1, 0, -2 * J(1, 0)), product_pauli_z(1, 1, -2 * J(1, 1)) >>

\* Grid step of the angles, in units of pi/8.  The assignment's cost
\* Hamiltonian has a weight 0.5, so its grid is the multiples of pi/4; the
\* lecture notebook's weights are integers and its grid the multiples of pi/8.
AngleUnit(kind) == IF Assignment(kind) THEN 2 ELSE 1

Angles(kind) == {AngleUnit(kind) * k : k \in 0 .. MaxAngle}

\* the vectors of length n over the grid
Vectors(kind, n) == [1 .. n -> Angles(kind)]

\* What the oracle is asked to measure: Hc in the assignment; in the lecture
\* notebook the argument of evaluate_hamiltonian: Hc, Z0 = pauli_z(0, 1),
\* Z1 = pauli_z(1, 1), and an operator that is not Hermitian,
\* product_pauli_z(0, 1, -1 + 1j).
Measured(kind) ==
  IF Assignment(kind) THEN {CostHamiltonian(kind)}
  ELSE { CostHamiltonian(kind), <<pauli_z(0, 2)>>, <<pauli_z(1, 2)>>,
         <<Term(-2, 2, "Z", {0, 1})>> }

\* ---------------------------------------------------------------- state
VARIABLES
  kind,          \* the representation of circuit_init
  p,             \* global depth
  Hm, Hc,        \* global Hamiltonians
  circuit_init,  \* the initial-state circuit object
  pc,            \* "idle", "oracle" (an oracle call is outstanding),
                 \* "returned", "raised"
  beta_gamma,    \* argument of evaluate_circuit
  hamiltonian,   \* what the oracle measures
  beta, gamma,   \* arguments handed to create_circuit
  circuit,       \* the circuit create_circuit returned
  err,           \* exception raised by the call, or "none"
  oracle_val,    \* what the oracle returned
  ret,           \* what evaluate_circuit returned
  outstanding,   \* oracle calls issued and not yet returned
  oracle_calls,  \* oracle calls issued by the current evaluate_circuit call
  first,         \* argument and value of the first call that returned
  between,       \* a call on another vector was made after that one
  drv,           \* minimize: "off", "ready", "waiting", "done", "failed"
  x, fx,         \* minimize: current iterate and its objective value
  k,             \* minimize: component being probed, 0 for the iterate
  best,          \* minimize: lowest probe of the round
  nfev, nit,     \* minimize: evaluations and iterations so far
  result,        \* the OptimizeResult
  ncalls,        \* oracle calls issued since minimize started
  exercise,      \* autograder: the exercise whose Hamiltonian is tested
  hobj,          \* autograder: the object under test, [cls, elem, terms]
  gpc,           \* autograder: "off", "start", the assertion to evaluate
                 \* next, "passed", "raised"
  asserted,      \* autograder: the assertions evaluated so far
  gerr,          \* autograder: the exception raised, or "none"
  prog,          \* circuit notebooks: the gates of the circuit
  ip,            \* circuit notebooks: gates applied so far
  reg,           \* circuit notebooks: the state of the quantum register
  counts,        \* circuit notebooks: outcomes of the shots so far
  w,             \* max-cut: the distance matrix
  bqm,           \* max-cut: the BinaryQuadraticModel [h, J, offset]
  sample,        \* max-cut: a spin assignment returned by the sampler
  energy,        \* max-cut: the energy reported with it
  pure_state,    \* mixed_state: the column vector passed in
  visibility,    \* mixed_state: the visibility passed in
  mixed          \* mixed_state: what the call returned or raised

setup == <<kind, p, Hm, Hc>>

call == <<pc, beta_gamma, hamiltonian, beta, gamma, circuit, err, oracle_val,
          ret, oracle_calls>>

driver == <<drv, x, fx, k, best, nfev, nit, result>>

run == <<ncalls>>

history == <<first, between>>

grader == <<exercise, hobj, gpc, asserted, gerr>>

gates == <<prog, ip, reg, counts>>

ising == <<w, bqm, sample, energy>>

mixing == <<pure_state, visibility, mixed>>

\* the state of the notebooks other than the variational circuits
notebooks == <<grader, gates, ising, mixing>>

qaoa == <<setup, circuit_init, call, outstanding, history, driver, run>>

vars == <<qaoa, notebooks>>

NoValue == [type |-> "none"]

\* Nothing of the autograder test has run.
GraderOff ==
  /\ exercise = 0
  /\ hobj = NoValue
  /\ gpc = "off"
  /\ asserted = {}
  /\ gerr = "none"

\* No circuit has been built.
GatesOff ==
  /\ prog = <<>>
  /\ ip = 0
  /\ reg = NoValue
  /\ counts = <<>>

\* No Ising model has been built.
IsingOff ==
  /\ w = <<>>
  /\ bqm = NoValue
  /\ sample = <<>>
  /\ energy = 0

\* mixed_state has not been called.
MixingOff ==
  /\ pure_state = NoValue
  /\ visibility = NoValue
  /\ mixed = NoValue

NotebooksOff == GraderOff /\ GatesOff /\ IsingOff /\ MixingOff

\* ------------------------------------------------------ evaluate_circuit
\* n = len(beta_gamma)//2; beta_gamma[:n], beta_gamma[n:]
SplitSwapped(v) ==
  [beta |-> SliceFrom(v, Len(v) \div 2), gamma |-> SliceTo(v, Len(v) \div 2)]

Split(v) ==
  [beta |-> SliceTo(v, Len(v) \div 2), gamma |-> SliceFrom(v, Len(v) \div 2)]

\* the oracle's answer, a complex number
Complex(c) == [type |-> "complex", re |-> c.re, im |-> c.im, den |-> c.den]

\* np.real(c), c.real
Untruncated(c) == Complex(c)

np_real(c) == [type |-> "real", num |-> c.re, den |-> c.den]

\* The value evaluate_circuit returns for the oracle's answer c: the real
\* part in either branch, and None when the circuit is of neither type.
Returned(kd, c) ==
  IF kd \in {"qiskit", "pyquil", "opflow"} THEN np_real(c) ELSE NoValue

\* The statevector-exact oracle: <psi| h |psi> for the state psi the
\* circuit prepares.
Oracle(circ, h) == Expectation(Statevector(circ, Hm, Hc), h)

\* evaluate_circuit(v) up to its oracle call: split the vector, build the
\* circuit, hand it to the oracle; or raise what create_circuit raises.
Call(v, h) ==
  LET s == Split(v)
      r == create_circuit(kind, circuit_init, s.beta, s.gamma, p)
  IN  /\ beta_gamma' = v
      /\ hamiltonian' = h
      /\ beta' = s.beta
      /\ gamma' = s.gamma
      /\ circuit_init' = r.init
      /\ circuit' = r.circuit
      /\ err' = r.err
      /\ oracle_val' = NoValue
      /\ ret' = NoValue
      /\ IF r.err = "none"
           THEN /\ pc' = "oracle"
                /\ outstanding' = outstanding + 1
                /\ oracle_calls' = 1
           ELSE /\ pc' = "raised"
                /\ outstanding' = outstanding
                /\ oracle_calls' = 0
      /\ UNCHANGED <<setup, notebooks>>

\* One call of evaluate_circuit on the vector drawn at the start.
Evaluate ==
  /\ pc = "idle"
  /\ Call(beta_gamma, hamiltonian)
  /\ UNCHANGED <<history, driver, run>>

\* The oracle answers and evaluate_circuit returns.
OracleReturn ==
  /\ pc = "oracle"
  /\ LET c == Oracle(circuit, hamiltonian)
     IN  /\ oracle_val' = Complex(c)
         /\ ret' = Returned(kind, c)
         /\ first' = IF first = NoValue
                       THEN [arg |-> beta_gamma, h |-> hamiltonian,
                             val |-> Returned(kind, c)]
                       ELSE first
  /\ outstanding' = outstanding - 1
  /\ pc' = "returned"
  /\ UNCHANGED <<notebooks, setup, circuit_init, beta_gamma, hamiltonian,
                 beta, gamma,
                 circuit, err, oracle_calls, between, driver, run>>

\* ------------------------------------------------- single evaluations
\* evaluate_circuit applied once to any vector of any length up to 2*MaxP,
\* for every representation and depth; the observables other than Hc are
\* measured on vectors of length 2p, as the lecture notebook does.
Inputs(kd) == UNION {Vectors(kd, n) : n \in 0 .. 2 * MaxP}

InitSetup ==
  /\ p \in 1 .. MaxP
  /\ Hm = MixingHamiltonian(kind)
  /\ Hc = CostHamiltonian(kind)
  /\ circuit_init = Circuit(UniformState, <<>>)
  /\ pc = "idle"
  /\ beta = <<>>
  /\ gamma = <<>>
  /\ circuit = NoCircuit
  /\ err = "none"
  /\ oracle_val = NoValue
  /\ ret = NoValue
  /\ outstanding = 0
  /\ oracle_calls = 0
  /\ first = NoValue
  /\ between = FALSE
  /\ k = 0
  /\ fx = NoValue
  /\ best = NoValue
  /\ nfev = 0
  /\ nit = 0
  /\ result = NoValue
  /\ ncalls = 0

\* The variational-circuit notebook has been set up and nothing was called.
QaoaOff ==
  /\ kind = "qiskit"
  /\ InitSetup
  /\ p = 1
  /\ beta_gamma = <<>>
  /\ hamiltonian = Hc
  /\ drv = "off"
  /\ x = <<>>

Init ==
  /\ kind \in Kinds
  /\ InitSetup
  /\ NotebooksOff
  /\ beta_gamma \in Inputs(kind)
  /\ hamiltonian \in IF Len(beta_gamma) = 2 * p THEN Measured(kind)
                                                 ELSE {CostHamiltonian(kind)}
  /\ drv = "off"
  /\ x = <<>>

Next == Evaluate \/ OracleReturn

Spec == Init /\ [][Next]_vars

\* ------------------------------------------------- sequences of calls
\* The vectors of the calls after the first: the first one again, the
\* vectors with all components equal, and the empty vector.
Between(kd, n, v) ==
  {v, <<>>} \cup {[i \in 1 .. n |-> a] : a \in Angles(kd)}

\* evaluate_circuit called again, after the previous call returned or raised.
EvaluateAgain ==
  /\ pc \in {"returned", "raised"}
  /\ \E v \in Between(kind, 2 * p, x) :
       /\ Call(v, hamiltonian)
       /\ between' = (between \/ (first # NoValue /\ v # first.arg))
  /\ UNCHANGED <<first, driver, run>>

\* x keeps the vector of the first call.
InitSeq ==
  /\ kind \in Kinds
  /\ InitSetup
  /\ NotebooksOff
  /\ beta_gamma \in Vectors(kind, 2 * p)
  /\ x = beta_gamma
  /\ hamiltonian = Hc
  /\ drv = "off"

NextSeq == Evaluate \/ OracleReturn \/ EvaluateAgain

SpecSeq == InitSeq /\ [][NextSeq]_vars

\* ------------------------------------------------------------ minimize
\* scipy.optimize.minimize(evaluate_circuit, x0): a descent driver that
\* evaluates the iterate, then one probe per component, moves to the lowest
\* probe when it improves on the iterate, and stops when none does or when
\* the evaluation cap is reached.
Trial(v, i) == IF i = 0 THEN v ELSE [v EXCEPT ![i] = v[i] + AngleUnit(kind)]

\* the evaluation cap (maxfun)
NeverExhausted(n) == FALSE

Exhausted(n) == n >= MaxFun

\* the driver calls the objective only when no call of its own is pending
MayIssueEarly(d) == d \in {"ready", "waiting"}

MayIssue(d) == d = "ready"

\* a record that reports the iterations where the evaluations belong
CountsIterations(xx, f, success) ==
  [x |-> xx, fun |-> f, nfev |-> nit, nit |-> nit, success |-> success]

OptimizeResult(xx, f, success) ==
  [x |-> xx, fun |-> f, nfev |-> nfev, nit |-> nit, success |-> success]

\* minimize calls the objective on the next trial vector.
DriverCall ==
  /\ MayIssue(drv)
  /\ nfev < MaxFun
  /\ Call(Trial(x, k), Hc)
  /\ drv' = "waiting"
  /\ nfev' = nfev + 1
  /\ ncalls' = ncalls + oracle_calls'
  /\ UNCHANGED <<history, x, fx, k, best, nit, result>>

\* minimize returns its record; running out of evaluations is reported in
\* the record's success field, never raised
StopOrRaise(xx, f, success) ==
  IF success
    THEN /\ drv' = "done"
         /\ result' = OptimizeResult(xx, f, success)
    ELSE /\ drv' = "failed"
         /\ result' = result

Stop(xx, f, success) ==
  /\ drv' = "done"
  /\ result' = OptimizeResult(xx, f, success)

\* The objective returned: record the value; after the last probe of a round
\* move or stop.
DriverReceive ==
  /\ drv = "waiting"
  /\ pc = "returned"
  /\ LET f == ret
         fx1 == IF k = 0 THEN f ELSE fx
         best1 == IF k = 0 THEN NoValue
                  ELSE IF best = NoValue \/ RealLess(f, best.fun)
                         THEN [x |-> beta_gamma, fun |-> f]
                         ELSE best
     IN  IF k < Len(x)
           THEN /\ UNCHANGED <<x, nit>>
                /\ fx' = fx1
                /\ best' = best1
                /\ IF Exhausted(nfev)
                     THEN /\ Stop(x, fx1, FALSE)
                          /\ k' = k
                     ELSE /\ k' = k + 1
                          /\ drv' = "ready"
                          /\ result' = result
         ELSE IF best1 # NoValue /\ RealLess(best1.fun, fx1)
           THEN /\ x' = best1.x
                /\ fx' = best1.fun
                /\ nit' = nit + 1
                /\ best' = NoValue
                /\ IF Exhausted(nfev)
                     THEN /\ drv' = "done"
                          /\ result' = [x |-> best1.x, fun |-> best1.fun,
                                        nfev |-> nfev, nit |-> nit + 1,
                                        success |-> FALSE]
                          /\ k' = k
                     ELSE /\ k' = 1
                          /\ drv' = "ready"
                          /\ result' = result
           ELSE /\ UNCHANGED <<x, nit, k>>
                /\ fx' = fx1
                /\ best' = best1
                /\ Stop(x, fx1, TRUE)
  /\ UNCHANGED <<notebooks, setup, circuit_init, call, outstanding, history,
                 nfev,
                 run>>

\* a driver that answers an exception of the objective by calling it again
DriverRetry ==
  /\ drv = "waiting"
  /\ pc = "raised"
  /\ drv' = "ready"
  /\ UNCHANGED <<notebooks, setup, circuit_init, call, outstanding, history,
                 x, fx, k,
                 best, nfev, nit, result, run>>

\* The objective raised: the exception leaves minimize.
DriverRaise ==
  /\ drv = "waiting"
  /\ pc = "raised"
  /\ drv' = "failed"
  /\ UNCHANGED <<notebooks, setup, circuit_init, call, outstanding, history,
                 x, fx, k,
                 best, nfev, nit, result, run>>

\* minimize starts after get_amplitudes(circuit_init) accepted the circuit,
\* from a vector of length 2p or one component short.
InitOpt ==
  /\ kind \in Kinds \ {"other"}
  /\ InitSetup
  /\ NotebooksOff
  /\ x \in Vectors(kind, 2 * p) \cup Vectors(kind, 2 * p - 1)
  /\ beta_gamma = <<>>
  /\ hamiltonian = Hc
  /\ drv = "ready"

NextOpt == DriverCall \/ OracleReturn \/ DriverReceive \/ DriverRaise

SpecOpt == InitOpt /\ [][NextOpt]_vars

\* ------------------------------------------------------ failing oracle
\* The oracle call fails (the backend is unreachable): the exception leaves
\* evaluate_circuit, which has no handler around the call.
OracleFail ==
  /\ pc = "oracle"
  /\ err' = "OracleError"
  /\ pc' = "raised"
  /\ outstanding' = outstanding - 1
  /\ UNCHANGED <<notebooks, setup, circuit_init, beta_gamma, hamiltonian,
                 beta, gamma,
                 circuit, oracle_val, ret, oracle_calls, history, driver,
                 run>>

NextFail == NextOpt \/ OracleFail

\* Optimization runs in which any oracle call may fail.
SpecFail == InitOpt /\ [][NextFail]_vars

\* The steps of minimize and of the oracle, told by the control state alone:
\* DriverCall is the only step from "ready" to "waiting", DriverReceive and
\* DriverRaise the only steps out of "waiting", OracleReturn the only step
\* from "oracle" to "returned", and each is enabled exactly when stated here.
Issues == MayIssue(drv) /\ nfev < MaxFun /\ drv' = "waiting"

Receives ==
  /\ drv = "waiting"
  /\ pc \in {"returned", "raised"}
  /\ drv' \in {"ready", "done", "failed"}

OracleReturns == pc = "oracle" /\ pc' = "returned"

\* Every oracle call returns and minimize keeps running.
FairOpt ==
  /\ SpecOpt
  /\ WF_drv(Issues)
  /\ WF_drv(Receives)
  /\ WF_pc(OracleReturns)

\* ---------------------------------------------- autograder: Hamiltonians
\* The test cells of exercises 1 (Hm) and 2 (Hc).  The object under test is
\* [cls, elem, terms]: its class, the class of its elements when it is a
\* sequence, and the weighted Pauli terms it holds.
Submission(cls, elem, terms) == [cls |-> cls, elem |-> elem, terms |-> terms]

\* term lists a learner may hand in
Answers ==
  { <<>>,
    <<pauli_x(0, 2)>>,
    <<pauli_x(0, 2), pauli_x(1, 2)>>,
    <<pauli_x(1, 2), pauli_x(0, 2)>>,
    <<pauli_x(0, -2), pauli_x(1, -2)>>,
    <<pauli_x(0, 2), pauli_x(1, 2), pauli_x(1, 2)>>,
    <<product_pauli_z(0, 1, -2), pauli_z(0, -1)>>,
    <<pauli_z(0, -1), product_pauli_z(0, 1, -2)>>,
    <<product_pauli_z(0, 1, -2), pauli_z(1, -1)>>,
    <<product_pauli_z(0, 1, -2)>> }

Submissions ==
  {Submission("Operator", "none", t) : t \in Answers}
    \cup {Submission("list", e, t) : e \in {"PauliTerm", "float"}, t \in Answers}
    \cup {Submission(c, "none", <<>>) : c \in {"tuple", "ndarray", "NoneType"}}

\* if isinstance(H, Operator): ... elif isinstance(H, tuple or list): ...
BranchOfSequences(o) ==
  IF o.cls = "Operator" THEN "matrix"
  ELSE IF o.cls \in {"list", "tuple"} THEN "len"
  ELSE "raise"

\* if isinstance(H, Operator): ... elif isinstance(H, list): ... else: raise
Branch(o) ==
  IF o.cls = "Operator" THEN "matrix"
  ELSE IF o.cls = "list" THEN "len"
  ELSE "raise"

\* the assertions of the list branch, in order
ListAsserts(ex) ==
  IF ex = 1 THEN <<"len", "isinstance", "compact_str">>
  ELSE <<"len", "isinstance", "compact_str0", "compact_str1">>

\* the position after assertion a
RECURSIVE After(_, _, _)
After(ex, a, i) ==
  IF a = "matrix" \/ i >= Len(ListAsserts(ex)) THEN "passed"
  ELSE IF ListAsserts(ex)[i] = a THEN ListAsserts(ex)[i + 1]
  ELSE After(ex, a, i + 1)

\* the value of assertion a of exercise ex on o: "ok", or the exception
\* its evaluation raises
Asserts(ex, a, o) ==
  CASE a = "matrix" ->
         IF ex = 1
           THEN IF Matrix(o.terms) = << <<0, 2, 2, 0>>, <<2, 0, 0, 2>>,
                                        <<2, 0, 0, 2>>, <<0, 2, 2, 0>> >>
                  THEN "ok" ELSE "AssertionError"
           ELSE IF \A i, j \in 1 .. 4 :
                     Matrix(o.terms)[i][j]
                       = IF i = j THEN <<-3, 3, 1, -1>>[i] ELSE 0
                  THEN "ok" ELSE "AssertionError"
    [] a = "len" ->
         IF Len(o.terms) = (IF ex = 1 THEN n_qubits ELSE 2)
           THEN "ok" ELSE "AssertionError"
    [] a = "isinstance" ->
         IF o.elem = "PauliTerm" THEN "ok" ELSE "AssertionError"
    [] a = "compact_str" ->
         IF \A i \in Qubits : o.terms[i + 1] = pauli_x(i, 2)
           THEN "ok" ELSE "AssertionError"
    [] a = "compact_str0" ->
         IF o.terms[1] = Term(-2, 0, "Z", {0, 1})
           THEN "ok" ELSE "AssertionError"
    [] OTHER ->
         IF o.terms[2] = Term(-1, 0, "Z", {0}) THEN "ok" ELSE "AssertionError"

\* The test cell starts: the isinstance tests choose the branch.
GraderDispatch ==
  /\ gpc = "start"
  /\ IF Branch(hobj) = "raise"
       THEN gpc' = "raised" /\ gerr' = "ValueError"
       ELSE gpc' = Branch(hobj) /\ gerr' = gerr
  /\ UNCHANGED <<exercise, hobj, asserted, qaoa, gates, ising, mixing>>

\* The next assertion of the chosen branch is evaluated.
GraderAssert ==
  /\ gpc \notin {"off", "start", "passed", "raised"}
  /\ asserted' = asserted \cup {gpc}
  /\ IF Asserts(exercise, gpc, hobj) = "ok"
       THEN gpc' = After(exercise, gpc, 1) /\ gerr' = gerr
       ELSE gpc' = "raised" /\ gerr' = Asserts(exercise, gpc, hobj)
  /\ UNCHANGED <<exercise, hobj, qaoa, gates, ising, mixing>>

InitGrader ==
  /\ QaoaOff
  /\ GatesOff
  /\ IsingOff
  /\ MixingOff
  /\ exercise \in {1, 2}
  /\ hobj \in Submissions
  /\ gpc = "start"
  /\ asserted = {}
  /\ gerr = "none"

NextGrader == GraderDispatch \/ GraderAssert

SpecGrader == InitGrader /\ [][NextGrader]_vars

\* --------------------------------------------------------- gate circuits
\* Circuits of the notebooks run gate by gate on a register of n qubits.
\* The register is [a, d]: amplitude j (0-based, qubit 0 the lowest bit) is
\* a[j + 1] / sqrt(2)^d, with a[j + 1] in Z[z].  The imaginary unit is z^4.
ZZero == ZScale(0, ZOne)

\* the register in the computational basis state b
Basis(n, b) ==
  [a |-> [j \in 1 .. 2 ^ n |-> IF j = b + 1 THEN ZOne ELSE ZZero], d |-> 0]

\* sqrt(2)^2 = 2 is cancelled while every amplitude is even
RECURSIVE Cancel(_)
Cancel(r) ==
  IF r.d >= 2 /\ \A j \in DOMAIN r.a : ZEven(r.a[j])
  THEN Cancel([a |-> [j \in DOMAIN r.a |-> ZHalf(r.a[j])], d |-> r.d - 2])
  ELSE r

\* circuit.h(q)
ApplyH(r, q) ==
  [a |-> [j \in DOMAIN r.a |->
            IF Bit(j - 1, q) = 0
            THEN ZAdd(r.a[j], r.a[Flip(j - 1, q) + 1])
            ELSE ZAdd(r.a[Flip(j - 1, q) + 1], ZScale(-1, r.a[j]))],
   d |-> r.d + 1]

\* the X gate sends every amplitude to 1, whatever it was
SetToOne(r, q) ==
  [a |-> [j \in DOMAIN r.a |->
            IF Bit(j - 1, q) = 1
            THEN ZAdd(r.a[j], r.a[Flip(j - 1, q) + 1])
            ELSE ZZero],
   d |-> r.d]

\* circuit.x(q)
ApplyX(r, q) ==
  [a |-> [j \in DOMAIN r.a |-> r.a[Flip(j - 1, q) + 1]], d |-> r.d]

\* the target is flipped whatever the control is
FlipTarget(r, c, t) == ApplyX(r, t)

\* circuit.cx(c, t)
ApplyCX(r, c, t) ==
  [a |-> [j \in DOMAIN r.a |->
            IF Bit(j - 1, c) = 1 THEN r.a[Flip(j - 1, t) + 1] ELSE r.a[j]],
   d |-> r.d]

\* controlled U^pw for U = [[1, 0], [0, i]]
ApplyCU(r, c, t, pw) ==
  [a |-> [j \in DOMAIN r.a |->
            IF Bit(j - 1, c) = 1 /\ Bit(j - 1, t) = 1
            THEN ZMulZeta(r.a[j], 4 * pw)
            ELSE r.a[j]],
   d |-> r.d]

Apply(r, g) ==
  Cancel(CASE g[1] = "h" -> ApplyH(r, g[2])
           [] g[1] = "x" -> ApplyX(r, g[2])
           [] g[1] = "cx" -> ApplyCX(r, g[2], g[3])
           [] g[1] = "cu" -> ApplyCU(r, g[2], g[3], g[4])
           [] OTHER -> r)

\* the powers of U given to the ancillas the other way round
PowerOfIndex(c) == 2 ^ c

\* the power of U controlled by ancilla c
Power(c) == 2 ^ (1 - c)

\* First part of phase estimation for U = diag(1, i): the eigenvector |e>
\* on qubit 2, Hadamards on the ancillas 0 and 1, then the controlled powers.
PhaseEstimation(e) ==
  [name |-> "qpe", n |-> 3, start |-> 0, e |-> e,
   gates |-> (IF e = 1 THEN << <<"x", 2>> >> ELSE <<>>)
             \o << <<"h", 0>>, <<"h", 1>>,
                   <<"cu", 0, 2, Power(0)>>, <<"cu", 1, 2, Power(1)>> >>]

\* circuit.h(q[0]); circuit.cx(q[0], q[1]); circuit.measure(q, c)
BellCircuit ==
  [name |-> "bell", n |-> 2, start |-> 0, e |-> 0,
   gates |-> << <<"h", 0>>, <<"cx", 0, 1>>, <<"measure">> >>]

\* circuit.x(q[0]); circuit.x(q[0]) on the basis state b
TwoX(b) ==
  [name |-> "xx", n |-> 1, start |-> b, e |-> 0,
   gates |-> << <<"x", 0>>, <<"x", 0>> >>]

Programs ==
  {PhaseEstimation(e) : e \in {0, 1}} \cup {BellCircuit}
    \cup {TwoX(b) : b \in {0, 1}}

HasMeasure(pr) == \E i \in DOMAIN pr.gates : pr.gates[i][1] = "measure"

\* the number of shots taken
RECURSIVE Total(_, _)
Total(c, j) == IF j = 0 THEN 0 ELSE c[j] + Total(c, j - 1)

\* one gate of the circuit
Gate ==
  /\ prog # <<>>
  /\ ip < Len(prog.gates)
  /\ ip' = ip + 1
  /\ reg' = Apply(reg, prog.gates[ip + 1])
  /\ UNCHANGED <<prog, counts, qaoa, grader, ising, mixing>>

\* one shot of execute(circuit, backend, shots=...): an outcome whose
\* amplitude is not zero
Shot ==
  /\ prog # <<>>
  /\ ip = Len(prog.gates)
  /\ HasMeasure(prog)
  /\ Total(counts, Len(counts)) < MaxShots
  /\ \E j \in DOMAIN reg.a :
       /\ reg.a[j] # ZZero
       /\ counts' = [counts EXCEPT ![j] = @ + 1]
  /\ UNCHANGED <<prog, ip, reg, qaoa, grader, ising, mixing>>

InitGates ==
  /\ QaoaOff
  /\ GraderOff
  /\ IsingOff
  /\ MixingOff
  /\ prog \in Programs
  /\ ip = 0
  /\ reg = Basis(prog.n, prog.start)
  /\ counts = [j \in 1 .. 2 ^ prog.n |-> 0]

NextGates == Gate \/ Shot

SpecGates == InitGates /\ [][NextGates]_vars

\* ------------------------------------------------------------ Ising model
\* The clustering notebook builds an Ising model from the distance matrix
\* w of n_instances points and samples it.  Distances are drawn as integers.
n_instances == 4

Instances == 0 .. n_instances - 1

\* the pairs i < j of for i in range(n): for j in range(i+1, n)
Pairs == {pr \in Instances \X Instances : pr[1] < pr[2]}

\* w[i, j] = np.linalg.norm(data[i] - data[j]): symmetric, zero diagonal
DistanceMatrices ==
  {[pr \in Instances \X Instances |->
      IF pr[1] = pr[2] THEN 0
      ELSE IF pr[1] < pr[2] THEN u[pr] ELSE u[<<pr[2], pr[1]>>]] :
     u \in [Pairs -> 0 .. MaxW]}

RECURSIVE SumOver(_, _)
SumOver(f, S) ==
  IF S = {} THEN 0
  ELSE LET e == CHOOSE e \in S : TRUE IN f[e] + SumOver(f, S \ {e})

\* both triangles of w are entered for a pair
CouplingBothWays(ww, i, j) == ww[<<i, j>>] + ww[<<j, i>>]

\* J[(i, j)] = w[i, j]
Coupling(ww, i, j) == ww[<<i, j>>]

\* dimod.BinaryQuadraticModel(h, J, 0.0, dimod.SPIN)
BinaryQuadraticModel(ww) ==
  [h |-> [i \in Instances |-> 0],
   J |-> [pr \in Pairs |-> Coupling(ww, pr[1], pr[2])],
   offset |-> 0,
   vartype |-> "SPIN"]

Spins == [Instances -> {-1, 1}]

\* the energy dimod reports for a sample: offset + sum h_i s_i
\* + sum J_ij s_i s_j
BqmEnergy(m, s) ==
  m.offset
    + SumOver([i \in Instances |-> m.h[i] * s[i]], Instances)
    + SumOver([pr \in Pairs |-> m.J[pr] * s[pr[1]] * s[pr[2]]], Pairs)

\* J, h = {}, {} ... model = dimod.BinaryQuadraticModel(...)
BuildModel ==
  /\ w # <<>>
  /\ bqm = NoValue
  /\ bqm' = BinaryQuadraticModel(w)
  /\ UNCHANGED <<w, sample, energy, qaoa, grader, gates, mixing>>

\* one read of sampler.sample(model, num_reads=10): some spin assignment
\* with its energy
Sample ==
  /\ bqm # NoValue
  /\ \E s \in Spins :
       /\ sample' = s
       /\ energy' = BqmEnergy(bqm, s)
  /\ UNCHANGED <<w, bqm, qaoa, grader, gates, mixing>>

InitIsing ==
  /\ QaoaOff
  /\ GraderOff
  /\ GatesOff
  /\ MixingOff
  /\ w \in DistanceMatrices
  /\ bqm = NoValue
  /\ sample = <<>>
  /\ energy = 0

NextIsing == BuildModel \/ Sample

SpecIsing == InitIsing /\ [][NextIsing]_vars

\* ------------------------------------------------------------ mixed_state
\* Complex numbers are pairs <<re, im>> of integers; a matrix is
\* [n, num, den]: n rows and columns, entry (j, k) is num[<<j, k>>] / den.
\* A pure state is [a, norm2]: the column vector a / sqrt(norm2).
CMul(u, v) == <<u[1] * v[1] - u[2] * v[2], u[1] * v[2] + u[2] * v[1]>>

CAdd(u, v) == <<u[1] + v[1], u[2] + v[2]>>

CScale(c, u) == <<c * u[1], c * u[2]>>

Conj(u) == <<u[1], -u[2]>>

RECURSIVE NormSquared(_, _)
NormSquared(a, j) ==
  IF j = 0 THEN 0
  ELSE a[j][1] * a[j][1] + a[j][2] * a[j][2] + NormSquared(a, j - 1)

\* the amplitudes 0, 1, -1 and i, before normalisation
Amplitudes == {<<0, 0>>, <<1, 0>>, <<-1, 0>>, <<0, 1>>}

\* the normalised pure states of d qubits: np.array([[..], ..]) / np.sqrt(..)
PureStates(d) ==
  {[a |-> a, norm2 |-> NormSquared(a, 2 ^ d)] :
     a \in {b \in [1 .. 2 ^ d -> Amplitudes] : NormSquared(b, 2 ^ d) > 0}}

\* the visibilities 0, 0.2, ..., 1.0 as fractions
Visibilities ==
  {[num |-> c, den |-> VisibilityGrid] : c \in 0 .. VisibilityGrid}

\* pure_state @ pure_state.T.conj()
OuterProduct(ps) ==
  [n |-> Len(ps.a),
   num |-> [e \in (1 .. Len(ps.a)) \X (1 .. Len(ps.a)) |->
              CMul(ps.a[e[1]], Conj(ps.a[e[2]]))],
   den |-> ps.norm2]

\* np.eye(n) / n
MaximallyMixed(n) ==
  [n |-> n,
   num |-> [e \in (1 .. n) \X (1 .. n) |->
              IF e[1] = e[2] THEN <<1, 0>> ELSE <<0, 0>>],
   den |-> n]

\* c * M for a fraction c
Times(c, M) ==
  [n |-> M.n,
   num |-> [e \in DOMAIN M.num |-> CScale(c.num, M.num[e])],
   den |-> c.den * M.den]

\* the same weight on both parts of the mixture
SameWeight(v) == v

\* 1 - visibility
OneMinus(v) == [num |-> v.den - v.num, den |-> v.den]

\* numpy adds two square arrays when their shapes agree or one is 1 x 1
Broadcasts(A, B) == A.n = B.n \/ A.n = 1 \/ B.n = 1

\* A + B for arrays of the same shape
Plus(A, B) ==
  [n |-> A.n,
   num |-> [e \in DOMAIN A.num |->
              CAdd(CScale(B.den, A.num[e]), CScale(A.den, B.num[e]))],
   den |-> A.den * B.den]

\* visibility*density_matrix + (1-visibility)*maximally_mixed_state, with
\* maximally_mixed_state = np.eye(4)/2**2 whatever the size of pure_state
mixed_state(ps, v) ==
  LET density_matrix == OuterProduct(ps)
      maximally_mixed_state == MaximallyMixed(4)
      A == Times(v, density_matrix)
      B == Times(OneMinus(v), maximally_mixed_state)
  IN  IF Broadcasts(A, B)
      THEN [type |-> "ndarray", m |-> Plus(A, B)]
      ELSE [type |-> "ValueError", m |-> NoValue]

\* mixed_state(pure_state, visibility)
MixedState ==
  /\ pure_state # NoValue
  /\ mixed = NoValue
  /\ mixed' = mixed_state(pure_state, visibility)
  /\ UNCHANGED <<pure_state, visibility, qaoa, grader, gates, ising>>

InitMix ==
  /\ QaoaOff
  /\ GraderOff
  /\ GatesOff
  /\ IsingOff
  /\ \E d \in 1 .. MaxQubits : pure_state \in PureStates(d)
  /\ visibility \in Visibilities
  /\ mixed = NoValue

NextMix == MixedState

SpecMix == InitMix /\ [][NextMix]_vars

\* -------------------------------------------------------------- claims
Built == pc \in {"oracle", "returned"}

\* the angle a, up to the sign convention of the representation
UpToSign(a, b) == a = b \/ a = -b

\* C1: create_circuit prepares the initial state and then, for i = 0 .. p-1
\* in increasing order, applies the evolution under Hm with angle beta[i]
\* followed by the evolution under Hc with angle gamma[i], and nothing else.
C1_MixingThenCostInOrder ==
  Built =>
    /\ circuit.amps = circuit_init.amps
    /\ Len(circuit.ops) = 2 * p
    /\ \A i \in 0 .. p - 1 :
         /\ circuit.ops[2 * i + 1].obs = "Hm"
         /\ UpToSign(circuit.ops[2 * i + 1].angle, Item(beta, i))
         /\ circuit.ops[2 * i + 2].obs = "Hc"
         /\ UpToSign(circuit.ops[2 * i + 2].angle, Item(gamma, i))

Count(ops, o) == Cardinality({i \in 1 .. Len(ops) : ops[i].obs = o})

\* C3: for every call that builds a circuit the depth used is
\* len(beta_gamma)/2: the circuit has exactly len(beta_gamma)/2 mixing and
\* len(beta_gamma)/2 cost evolutions, one evolution per component.
C3_DepthIsHalfTheLength ==
  Built =>
    /\ 2 * p = Len(beta_gamma)
    /\ 2 * Count(circuit.ops, "Hm") = Len(beta_gamma)
    /\ 2 * Count(circuit.ops, "Hc") = Len(beta_gamma)
    /\ Len(circuit.ops) = Len(beta_gamma)

Malformed == Len(beta_gamma) % 2 = 1 \/ Len(beta_gamma) # 2 * p

\* C4: a call on a vector of odd length or of length other than 2p ends in
\* an error before any oracle call is made.
C4_MalformedIsRejected ==
  (Malformed /\ pc # "idle") => (pc = "raised" /\ oracle_calls = 0)

\* C5: when the oracle's answer has an imaginary part that is not zero, the
\* call reports an error and returns no value.
C5_ImaginaryPartIsReported ==
  (oracle_val # NoValue /\ oracle_val.im # R4Zero) =>
    (pc = "raised" /\ ret = NoValue)

\* C6: every call that returns, for either circuit representation, returns
\* one real number.
C6_ReturnsOneReal ==
  pc = "returned" => (ret.type = "real" /\ ret.den > 0 /\ Len(ret.num) = 4)

C6_Witness ==
  /\ pc = "returned"
  /\ kind \in {"qiskit", "pyquil"}
  /\ oracle_val.re # R4Zero
  /\ ret.num = oracle_val.re

\* C7: evaluate_circuit changes nothing it reads: the input vector, Hc, Hm,
\* p and circuit_init are the same after every step of the call.
C7_ReadsAreUnchanged ==
  [][UNCHANGED <<beta_gamma, Hc, Hm, p, circuit_init>>]_vars

C7_Witness ==
  /\ pc = "returned"
  /\ Len(circuit.ops) = 2 * p
  /\ circuit_init = Circuit(UniformState, <<>>)

\* C8: with the exact oracle a call on the vector of the first call returns
\* the value the first call returned, whatever calls were made in between.
C8_SameVectorSameValue ==
  (pc = "returned" /\ beta_gamma = first.arg /\ hamiltonian = first.h) =>
    ret = first.val

C8_Witness ==
  /\ pc = "returned"
  /\ between
  /\ beta_gamma = first.arg
  /\ ret.num # R4Zero

\* C9: at most one oracle call is outstanding, and the driver is ready to
\* issue an evaluation only when none is.
C9_OneEvaluationAtATime ==
  /\ outstanding \in {0, 1}
  /\ (outstanding = 1) = (pc = "oracle")
  /\ drv = "ready" => outstanding = 0

C9_Witness ==
  /\ pc = "oracle"
  /\ outstanding = 1
  /\ nfev = 3
  /\ drv = "waiting"

\* C10: every optimization run started from a vector of length 2p
\* eventually returns a result record, the oracle calls returning.
C10_RunReturnsResult ==
  (Len(x) = 2 * p) ~> (drv = "done" /\ result # NoValue)

C10_Witness ==
  /\ drv = "done"
  /\ Len(x) = 2 * p
  /\ result.success
  /\ result.nit >= 1

\* The round that ended the run found no probe below the iterate: the
\* convergence criterion of the driver.
Converged ==
  /\ k = Len(x)
  /\ best # NoValue
  /\ ~RealLess(best.fun, fx)

\* C11: when the evaluation cap is reached before the convergence criterion
\* holds, the run still ends with a result record, whose success field is
\* false; the run fails only when the objective itself raised.
C11_CapIsReportedNotRaised ==
  /\ (nfev >= MaxFun /\ drv # "waiting") =>
       /\ drv = "done"
       /\ result # NoValue
       /\ result.nfev = MaxFun
       /\ ~Converged => ~result.success
  /\ drv = "failed" => pc = "raised"

C11_Witness ==
  /\ drv = "done"
  /\ result.nfev = MaxFun
  /\ ~Converged
  /\ ~result.success
  /\ result.nit >= 1

OracleFailed == err = "OracleError"

\* C12: once an oracle call of a run has failed, the run only fails: the
\* failed call is not made again, no further evaluation or oracle call is
\* issued, and no result record is returned.
C12_OracleFailureIsFatal ==
  [][OracleFailed =>
       /\ result = NoValue
       /\ drv \in {"waiting", "failed"}
       /\ err' = "OracleError"
       /\ pc' = "raised"
       /\ nfev' = nfev
       /\ outstanding' = 0
       /\ result' = NoValue
       /\ drv' \in {"waiting", "failed"}]_vars

C12_Witness ==
  /\ OracleFailed
  /\ drv = "failed"
  /\ result = NoValue
  /\ nfev >= 3
  /\ nit >= 1

\* C13: the nfev of the result record is the number of oracle calls made
\* during the run: every evaluation of the objective made one oracle call
\* and was counted once.
C13_NfevCountsOracleCalls ==
  drv = "done" => (result.nfev = ncalls /\ result.nfev = nfev)

C13_Witness ==
  /\ drv = "done"
  /\ result.nfev = ncalls
  /\ ncalls >= 3
  /\ ncalls < MaxFun
  /\ result.nit >= 1

\* C15: the mixing Hamiltonian for two qubits is X0 + X1, each term with
\* weight +1: its matrix is [[0,1,1,0],[1,0,0,1],[1,0,0,1],[0,1,1,0]] and
\* its term list has n_qubits terms, the i-th being 1 * X on qubit i.
C15_MixingHamiltonianIsSumOfX ==
  /\ Matrix(Hm) = << <<0, 2, 2, 0>>, <<2, 0, 0, 2>>,
                     <<2, 0, 0, 2>>, <<0, 2, 2, 0>> >>
  /\ Len(Hm) = n_qubits
  /\ \A i \in Qubits : Hm[i + 1] = pauli_x(i, 2)

Diagonal(H) == [i \in 1 .. 4 |-> Matrix(H)[i][i]]

IsDiagonal(H) == \A i, j \in 1 .. 4 : i # j => Matrix(H)[i][j] = 0

\* C16: the assignment's cost Hamiltonian -Z0Z1 - 0.5*Z0 is the diagonal
\* [-1.5, 1.5, 0.5, -0.5] in the basis order 00, 01, 10, 11 with qubit 0
\* the least significant bit, and its term list has exactly two terms,
\* -1 * Z0Z1 and then -0.5 * Z0.
C16_CostHamiltonianDiagonal ==
  Assignment(kind) =>
    /\ IsDiagonal(Hc)
    /\ Diagonal(Hc) = <<-3, 3, 1, -1>>
    /\ Len(Hc) = 2
    /\ Hc[1] = Term(-2, 0, "Z", {0, 1})
    /\ Hc[2] = Term(-1, 0, "Z", {0})

C16_Witness ==
  /\ kind = "pyquil"
  /\ pc = "returned"
  /\ hamiltonian = Hc
  /\ Hc = <<product_pauli_z(0, 1, -2), pauli_z(0, -1)>>
  /\ Diagonal(Hc)[2] = 3

\* get_amplitudes(circuit): the state the circuit prepares
get_amplitudes(circ) == Statevector(circ, Hm, Hc)

\* C17: the state circuit_init prepares on two qubits is the uniform
\* superposition: each of the four amplitudes is 0.5 and the squared
\* magnitudes add up to 1.
C17_InitialStateIsUniform ==
  LET psi == get_amplitudes(circuit_init)
  IN  /\ \A j \in Dim : ZScale(2, psi.a[j + 1]) = ZScale(2 ^ psi.d, ZOne)
      /\ R4Add(R4Add(ZNorm(psi.a[1]), ZNorm(psi.a[2])),
               R4Add(ZNorm(psi.a[3]), ZNorm(psi.a[4])))
           = <<4 ^ psi.d, 0, 0, 0>>

C17_Witness ==
  /\ pc = "oracle"
  /\ kind = "qiskit"
  /\ circuit.amps = circuit_init.amps
  /\ get_amplitudes(circuit_init).d = 1
  /\ get_amplitudes(circuit_init).a[4] = ZOne

ZeroVector(v) == \A i \in 1 .. Len(v) : v[i] = 0

\* eight times the mean of the diagonal of H, its expectation in the
\* uniform superposition (Matrix holds twice the weights)
DiagonalSum(H) ==
  Diagonal(H)[1] + Diagonal(H)[2] + Diagonal(H)[3] + Diagonal(H)[4]

\* C18: evaluate_circuit on the all-zero vector of length 2p returns the
\* expectation of the cost observable in the untouched uniform initial
\* state, the mean of its diagonal; for the assignment's Hc that is 0.
C18_ZeroVectorGivesUniformMean ==
  (pc = "returned" /\ Len(beta_gamma) = 2 * p /\ ZeroVector(beta_gamma)
     /\ hamiltonian = Hc) =>
    /\ get_amplitudes(circuit) = get_amplitudes(circuit_init)
    /\ ret.type = "real"
    /\ R4Scale(8, ret.num) = R4Scale(ret.den, <<DiagonalSum(Hc), 0, 0, 0>>)
    /\ Assignment(kind) => ret.num = R4Zero

C18_Witness ==
  /\ pc = "returned"
  /\ kind = "qiskit"
  /\ p = 2
  /\ beta_gamma = <<0, 0, 0, 0>>
  /\ hamiltonian = Hc
  /\ Diagonal(Hc) = <<-3, 3, 1, -1>>
  /\ ret.num = R4Zero

Real(n, d) == [type |-> "real", num |-> <<n, 0, 0, 0>>, den |-> d]

Min(S) == CHOOSE m \in S : \A n \in S : m <= n

\* the smallest eigenvalue of a diagonal H
GroundEnergy(H) == Real(Min({Diagonal(H)[i] : i \in 1 .. 4}), 2)

AtLeast(u, v) == ~RealLess(u, v)

\* C19: for p = 1 and p = 2 no vector makes evaluate_circuit return less
\* than the smallest eigenvalue of the cost Hamiltonian, -1.5 for
\* -Z0Z1 - 0.5*Z0, and the fun of a result record is never below it.
C19_NeverBelowGroundEnergy ==
  /\ Assignment(kind) => GroundEnergy(Hc) = Real(-3, 2)
  /\ pc = "returned" => AtLeast(ret, GroundEnergy(Hc))
  /\ drv = "done" => AtLeast(result.fun, GroundEnergy(Hc))

C19_Witness ==
  /\ drv = "done"
  /\ kind = "qiskit"
  /\ p = 2
  /\ result.nit >= 1
  /\ RealLess(result.fun, Real(-1, 4))
  /\ AtLeast(result.fun, Real(-3, 2))

\* the objective: what evaluate_circuit returns on v with the exact oracle
Objective(v) ==
  LET s == Split(v)
  IN  np_real(Oracle(create_circuit(kind, circuit_init, s.beta, s.gamma,
                                    p).circuit, Hc))

\* (b0, b1, g0, g1) with the two (beta_i, gamma_i) pairs in the other order
SwapPairs(v) == <<v[2], v[1], v[4], v[3]>>

\* the vectors of length 4 on the grid one step wider than that of the calls
SwapVectors(kd) == [1 .. 4 -> {AngleUnit(kd) * j : j \in 0 .. MaxAngle + 1}]

\* C22: with p = 2 and the notebook's setup there are vectors
\* (b0, b1, g0, g1) on which evaluate_circuit and evaluate_circuit of
\* (b1, b0, g1, g0) differ.
C22_PairOrderMatters ==
  (p = 2 /\ pc = "idle" /\ beta_gamma = <<>> /\ kind # "other") =>
    \E v \in SwapVectors(kind) : Objective(v) # Objective(SwapPairs(v))

C22_Witness ==
  /\ pc = "returned"
  /\ p = 2
  /\ kind = "qiskit"
  /\ Len(beta_gamma) = 4
  /\ hamiltonian = Hc
  /\ ret = Objective(beta_gamma)
  /\ ret # Objective(SwapPairs(beta_gamma))

\* the state of create_circuit(result['x'][:p], result['x'][p:])
OptimalState ==
  LET s == Split(result.x)
  IN  Statevector(create_circuit(kind, circuit_init, s.beta, s.gamma,
                                 p).circuit, Hm, Hc)

\* the amplitudes of psi have magnitudes sqrt(1/2), 0, 0, sqrt(1/2)
BellMagnitudes(psi) ==
  /\ R4Scale(2, ZNorm(psi.a[1])) = <<4 ^ psi.d, 0, 0, 0>>
  /\ ZNorm(psi.a[2]) = R4Zero
  /\ ZNorm(psi.a[3]) = R4Zero
  /\ R4Scale(2, ZNorm(psi.a[4])) = <<4 ^ psi.d, 0, 0, 0>>

Lecture == kind = "opflow" /\ p = 1

C24_BranchesBuildTheSameSteps ==
  (Built /\ kind \in {"qiskit", "pyquil"}) =>
    create_circuit("qiskit", circuit_init, beta, gamma, p).circuit.ops
      = create_circuit("pyquil", circuit_init, beta, gamma, p).circuit.ops

\* C21: the test cell raises ValueError exactly when the object is neither
\* an Operator nor a list, and then no assertion of either branch has been
\* evaluated.
C21_UnknownTypeRaisesValueError ==
  gpc \notin {"off", "start"} =>
    /\ (gerr = "ValueError") = (hobj.cls \notin {"Operator", "list"})
    /\ gerr = "ValueError" => (asserted = {} /\ gpc = "raised")

C21_Witness ==
  /\ gpc = "raised"
  /\ gerr = "ValueError"
  /\ hobj.cls = "tuple"
  /\ asserted = {}
  /\ exercise = 2

\* C25: after the first part of phase estimation for U = diag(1, i) with
\* the eigenvector |e> on qubit 2, the amplitude of index 4e + 2*q1 + q0 is
\* 0.5 * lambda^(2*q0 + q1) with lambda = i^e, every other amplitude is 0:
\* [0.5]*4 + [0]*4 for |0> and [0, 0, 0, 0, 0.5, -0.5, 0.5i, -0.5i] for |1>.
ZI == ZMulZeta(ZOne, 4)

QpeAmplitude(e, j) ==
  IF Bit(j, 2) = e
  THEN ZMulZeta(ZOne, 4 * e * (2 * Bit(j, 0) + Bit(j, 1)))
  ELSE ZZero

QpeDone == prog # <<>> /\ prog.name = "qpe" /\ ip = Len(prog.gates)

C25_PhaseEstimationAmplitudes ==
  QpeDone =>
    /\ reg.d = 2
    /\ \A j \in 0 .. 7 : reg.a[j + 1] = QpeAmplitude(prog.e, j)
    /\ prog.e = 0 =>
         reg.a = <<ZOne, ZOne, ZOne, ZOne, ZZero, ZZero, ZZero, ZZero>>
    /\ prog.e = 1 =>
         reg.a = <<ZZero, ZZero, ZZero, ZZero,
                   ZOne, ZScale(-1, ZOne), ZI, ZScale(-1, ZI)>>

C25_Witness ==
  /\ QpeDone
  /\ prog.e = 1
  /\ reg.a[6] = ZScale(-1, ZOne)
  /\ reg.a[7] = ZI

\* C26: every shot of the measured circuit H(0), CNOT(0 -> 1) run from |00>
\* gives 00 or 11; 01 and 10 never appear in the counts.
C26_BellShotsAgree ==
  (prog # <<>> /\ prog.name = "bell") =>
    /\ counts[2] = 0
    /\ counts[3] = 0
    /\ counts[1] + counts[4] = Total(counts, Len(counts))

C26_Witness ==
  /\ prog # <<>>
  /\ prog.name = "bell"
  /\ counts[1] >= 1
  /\ counts[4] >= 1
  /\ Total(counts, Len(counts)) = MaxShots

\* C28: X applied twice to a computational basis state gives that state
\* back; the circuit x; x run from |0> ends in the statevector [1, 0].
TwoXDone == prog # <<>> /\ prog.name = "xx" /\ ip = Len(prog.gates)

C28_XTwiceIsIdentity ==
  TwoXDone =>
    /\ reg = Basis(1, prog.start)
    /\ prog.start = 0 => (reg.a = <<ZOne, ZZero>> /\ reg.d = 0)

C28_Witness ==
  /\ TwoXDone
  /\ prog.start = 0
  /\ reg.a = <<ZOne, ZZero>>

\* C27: for the Ising model built from the distance matrix w, every spin
\* assignment has energy = (sum of w[i, j], i < j) - 2 * (weight of its cut),
\* so an assignment has minimum energy exactly when its cut is maximum.
CutWeight(ww, s) ==
  SumOver([pr \in Pairs |->
             IF s[pr[1]] # s[pr[2]] THEN ww[pr] ELSE 0], Pairs)

TotalWeight(ww) == SumOver([pr \in Pairs |-> ww[pr]], Pairs)

IsMinimumEnergy(s) ==
  \A t \in Spins : BqmEnergy(bqm, s) <= BqmEnergy(bqm, t)

IsMaximumCut(s) == \A t \in Spins : CutWeight(w, s) >= CutWeight(w, t)

C27_MinimumEnergyIsMaximumCut ==
  sample # <<>> =>
    /\ energy = TotalWeight(w) - 2 * CutWeight(w, sample)
    /\ IsMinimumEnergy(sample) <=> IsMaximumCut(sample)

C27_Witness ==
  /\ sample # <<>>
  /\ CutWeight(w, sample) >= 2
  /\ IsMaximumCut(sample)
  /\ energy < 0
  /\ \E t \in Spins : ~IsMaximumCut(t)

\* two matrices with the same entries
SameMatrix(A, B) ==
  /\ A.n = B.n
  /\ \A e \in DOMAIN A.num : CScale(B.den, A.num[e]) = CScale(A.den, B.num[e])

\* visibility * |psi><psi| + (1 - visibility) * identity(n) / n
Mixture(ps, v) ==
  Plus(Times(v, OuterProduct(ps)), Times(OneMinus(v), MaximallyMixed(Len(ps.a))))

\* C29: for a pure state of d qubits, for every d, mixed_state returns
\* visibility * |psi><psi| + (1 - visibility) * identity(2^d) / 2^d.
C29_MixesWithMaximallyMixedOfItsSize ==
  mixed # NoValue =>
    /\ mixed.type = "ndarray"
    /\ SameMatrix(mixed.m, Mixture(pure_state, visibility))

\* C30: for a normalised two-qubit pure state and a visibility in [0, 1],
\* the diagonal of the matrix mixed_state returns is non-negative and sums
\* to 1; at visibility 1 the matrix is the density matrix of the pure
\* state, at visibility 0 it is identity / 4.
TwoQubitResult == mixed # NoValue /\ Len(pure_state.a) = 4

RECURSIVE Trace(_, _)
Trace(M, j) ==
  IF j = 0 THEN <<0, 0>> ELSE CAdd(M.num[<<j, j>>], Trace(M, j - 1))

C30_ValidMixture ==
  TwoQubitResult =>
    /\ mixed.type = "ndarray"
    /\ mixed.m.n = 4
    /\ \A j \in 1 .. 4 :
         mixed.m.num[<<j, j>>][2] = 0 /\ mixed.m.num[<<j, j>>][1] >= 0
    /\ Trace(mixed.m, 4) = <<mixed.m.den, 0>>
    /\ visibility.num = visibility.den =>
         SameMatrix(mixed.m, OuterProduct(pure_state))
    /\ visibility.num = 0 => SameMatrix(mixed.m, MaximallyMixed(4))

\* the printed example: phi+ at visibility 0.8 has diagonal 0.45, 0.05,
\* 0.05, 0.45 and corner entries 0.4
C30_Witness ==
  /\ TwoQubitResult
  /\ pure_state.a = <<<<1, 0>>, <<0, 0>>, <<0, 0>>, <<1, 0>>>>
  /\ visibility.num = 4
  /\ mixed.type = "ndarray"
  /\ 20 * mixed.m.num[<<1, 1>>][1] = 9 * mixed.m.den
  /\ 20 * mixed.m.num[<<2, 2>>][1] = mixed.m.den
  /\ 5 * mixed.m.num[<<1, 4>>][1] = 2 * mixed.m.den

=============================================================================
